---- MODULE Spec2Model ----
(***************************************************************************)
(* Model of the PDF grader (src/理论打分.py): the quick-entry keystroke     *)
(* machine, the grade table (self.df) with its CSV file, navigation        *)
(* between submissions and the export action of PDFGraderApp.              *)
(*                                                                         *)
(* Python strings are modelled as sequences of one-character strings, so   *)
(* that int(), str(), strip() and split("-") are computed, not assumed.    *)
(* The token "sup2" stands for the single character U+00B2 (superscript    *)
(* two), for which str.isdigit() is True while int() raises ValueError.    *)
(* An optional integer (a parse result) is <<>> (None) or <<n>>.            *)
(* A cell of the columns q1_score and q2_score is a record: the string "", *)
(* an int n, a float n.0 or NaN; a cell of a text column is its text, or   *)
(* the one-token sequence <<"NaN">> for the NaN that read_csv puts in a    *)
(* blank cell.                                                             *)
(***************************************************************************)
EXTENDS Integers, Sequences, FiniteSets, TLC

\* ------------------------------------------------------------------ bounds
\* Cap on the number of rows of the grade table (appends are unbounded in
\* the program).
MaxRows == 2

\* ---------------------------------------------------------- characters/text
DecimalDigits == {"0", "1", "2", "3", "4", "5", "6", "7", "8", "9"}

DigitChar == <<"0", "1", "2", "3", "4", "5", "6", "7", "8", "9">>

\* value of a decimal digit character
DigitVal(c) == CHOOSE n \in 0..9 : DigitChar[n + 1] = c

\* str.isdigit() for one character: decimal digits and other Unicode digit
\* characters such as U+00B2
IsDigit(c) == c \in DecimalDigits \cup {"sup2"}

\* characters int() accepts as digits
IsDecimal(c) == c \in DecimalDigits

IsSpace(c) == c = " "

None == <<>>

Some(n) == <<n>>

Min(a, b) == IF a < b THEN a ELSE b

Max(a, b) == IF a > b THEN a ELSE b

RECURSIVE LStrip(_)
LStrip(s) == IF s # <<>> /\ IsSpace(Head(s)) THEN LStrip(Tail(s)) ELSE s

RECURSIVE RStrip(_)
RStrip(s) ==
  IF s # <<>> /\ IsSpace(s[Len(s)]) THEN RStrip(SubSeq(s, 1, Len(s) - 1)) ELSE s

\* str.strip()
Strip(s) == RStrip(LStrip(s))

RECURSIVE DecValue(_)
DecValue(s) ==
  IF s = <<>> THEN 0
  ELSE 10 * DecValue(SubSeq(s, 1, Len(s) - 1)) + DigitVal(s[Len(s)])

AllDecimal(s) == s # <<>> /\ \A i \in 1..Len(s) : IsDecimal(s[i])

\* int(text): optional sign, then at least one decimal digit, surrounding
\* blanks ignored; None stands for the ValueError
IntOf(s) ==
  LET t == Strip(s)
      signed == t # <<>> /\ Head(t) \in {"-", "+"}
      body == IF signed THEN Tail(t) ELSE t
  IN  IF ~AllDecimal(body) THEN None
      ELSE IF signed /\ Head(t) = "-" THEN Some(0 - DecValue(body))
      ELSE Some(DecValue(body))

RECURSIVE StrNat(_)
StrNat(n) ==
  IF n < 10 THEN <<DigitChar[n + 1]>>
  ELSE StrNat(n \div 10) \o <<DigitChar[(n % 10) + 1]>>

\* str(n) for an integer
Str(n) == IF n < 0 THEN <<"-">> \o StrNat(0 - n) ELSE StrNat(n)

\* ------------------------------------------------------------------ cells
\* cells of the score columns: the string "", an int, a float with a zero
\* fraction, NaN
EmptyCell == [t |-> "str", v |-> 0]

IntCell(n) == [t |-> "int", v |-> n]

FloatCell(n) == [t |-> "float", v |-> n]

NaNCell == [t |-> "nan", v |-> 0]

\* NaN in a text column
NaNText == <<"NaN">>

\* pd.isna(cell) for a cell of a score column
isna(c) == c.t = "nan"

\* pd.isna(cell) for a cell of a text column
isnaText(c) == c = NaNText

\* str(cell) of a score cell: "", "30", "30.0" or "nan"
CellStr(c) ==
  IF c.t = "str" THEN <<>>
  ELSE IF c.t = "int" THEN Str(c.v)
  ELSE IF c.t = "float" THEN Str(c.v) \o <<".", "0">>
  ELSE <<"n", "a", "n">>

\* str(cell) of a text cell, also what astype(str) gives
TextStr(c) == IF c = NaNText THEN <<"n", "a", "n">> ELSE c

\* bool(cell) as tested by "cell or ..." : "", 0 and 0.0 are false, NaN is
\* true
Truthy(c) == ~(c.t = "str" \/ (c.t \in {"int", "float"} /\ c.v = 0))

\* the number a score cell holds, None when it holds none
CellValue(c) == IF c.t \in {"int", "float"} THEN Some(c.v) ELSE None

\* clamp_int without its upper limit
clamp_int_NoUpper(s, lo, hi) ==
  LET p == IntOf(s)
  IN  IF p = None THEN None
      ELSE IF p[1] < lo THEN Some(lo)
      ELSE p

clamp_int(s, lo, hi) ==
  LET p == IntOf(s)
  IN  IF p = None THEN None
      ELSE IF p[1] < lo THEN Some(lo)
      ELSE IF p[1] > hi THEN Some(hi)
      ELSE p

\* int(float(s)) or 0; the texts it is applied to are integer literals,
\* integer literals followed by ".0", or ""
safe_int_or_zero(s) ==
  LET t == Strip(s)
      n == Len(t)
      p == IF n >= 3 /\ SubSeq(t, n - 1, n) = <<".", "0">>
           THEN IntOf(SubSeq(t, 1, n - 2))
           ELSE IntOf(t)
  IN  IF p = None THEN 0 ELSE p[1]

OrZero(q) == IF q = None THEN 0 ELSE q[1]

\* ------------------------------------------------------------ file names
\* os.path.splitext(os.path.basename(path))[0]: the name up to its last "."
\* (paths are modelled by their base names)
Stem(f) ==
  LET dots == {i \in 2..Len(f) : f[i] = "."}
  IN  IF dots = {} THEN f
      ELSE SubSeq(f, 1, (CHOOSE i \in dots : \A j \in dots : j <= i) - 1)

RECURSIVE Split(_, _)
\* s.split(sep)
Split(s, sep) ==
  LET hits == {i \in 1..Len(s) : s[i] = sep}
  IN  IF hits = {} THEN <<s>>
      ELSE LET i == CHOOSE h \in hits : \A j \in hits : h <= j
           IN  <<SubSeq(s, 1, i - 1)>> \o Split(SubSeq(s, i + 1, Len(s)), sep)

RECURSIVE Join(_, _)
\* sep.join(parts)
Join(parts, sep) ==
  IF parts = <<>> THEN <<>>
  ELSE IF Len(parts) = 1 THEN parts[1]
  ELSE parts[1] \o <<sep>> \o Join(Tail(parts), sep)

\* re.search(r"(\d{8,})", s): the first maximal run of 8 or more digits
DigitRun(s) ==
  LET starts == {i \in 1..Len(s) :
                    /\ i + 7 <= Len(s)
                    /\ \A j \in i..(i + 7) : IsDecimal(s[j])}
  IN  IF starts = {} THEN <<>>
      ELSE LET i == CHOOSE a \in starts : \A b \in starts : a <= b
               ends == {e \in i..Len(s) : \A j \in i..e : IsDecimal(s[j])}
               e == CHOOSE a \in ends : \A b \in ends : b <= a
           IN  SubSeq(s, i, e)

\* a parser that takes the first segment alone as class_time
parse_filename_meta_FirstSegment(f) ==
  LET base == Stem(f)
      parts == Split(base, "-")
      n == Len(parts)
  IN  IF n >= 3
      THEN [student_id |-> Strip(parts[n]),
            name |-> Strip(parts[n - 1]),
            class_time |-> Strip(parts[1])]
      ELSE [student_id |-> DigitRun(base),
            name |-> <<>>,
            class_time |-> Strip(base)]

parse_filename_meta(f) ==
  LET base == Stem(f)
      parts == Split(base, "-")
      n == Len(parts)
  IN  IF n >= 3
      THEN [student_id |-> Strip(parts[n]),
            name |-> Strip(parts[n - 1]),
            class_time |-> Strip(Join(SubSeq(parts, 1, n - 2), "-"))]
      ELSE [student_id |-> DigitRun(base),
            name |-> <<>>,
            class_time |-> Strip(base)]

\* ------------------------------------------------------------ input sets
Pdf == <<".", "p", "d", "f">>

\* "m-a-1.pdf": class m, name a, student 1
FileA == <<"m", "-", "a", "-", "1">> \o Pdf

\* "z.pdf": no student id can be parsed from it
FileZ == <<"z">> \o Pdf

\* "m-b-2.pdf": class m, name b, student 2
FileB == <<"m", "-", "b", "-", "2">> \o Pdf

\* results of _scan_pdfs for the folders that can be chosen: sorted lists of
\* names
DirNone == <<>>

DirOne == <<FileA, FileZ>>

DirTwo == <<FileB>>

DirSolo == <<FileA>>

Dirs == {DirNone, DirOne, DirTwo}

\* characters delivered by key events
Keys == {"5", "9", "sup2", "a"}

\* texts typed or pasted directly into a score entry
EntryTexts == {<<"x">>, <<"-", "3">>, <<"9", "9", " ">>}

\* texts left in the comment box by the grader
CommentTexts == {<<>>, <<" ", "o", "k">>}

Row(ct, nm, sid, q1, q2, tot, cm, fl) ==
  [class_time |-> ct, name |-> nm, student_id |-> sid, q1_score |-> q1,
   q2_score |-> q2, total_score |-> tot, comment |-> cm, file |-> fl]

\* contents of manual_grades.csv found at start-up
InitFiles ==
  {[kind |-> "absent", rows |-> <<>>],
   [kind |-> "corrupt", rows |-> <<>>],
   [kind |-> "table",
    rows |-> <<Row(<<"m">>, <<"a">>, <<"1">>, <<"2", "0">>, <<"3", "0">>,
                   <<"5", "0">>, <<"o", "k">>, FileA)>>]}

\* ----------------------------------------------------------------- state
VARIABLES
  pdf_paths,       \* self.pdf_paths
  idx,             \* self.idx (0-based)
  df,              \* self.df, the grade table: a sequence of rows
  csv,             \* manual_grades.csv on disk
  var_class_time, var_name, var_student_id, var_file,
  entry_q1, entry_q2,   \* texts of the two score entries
  var_total,       \* the displayed total
  text_comment,    \* text of the comment box
  quick_stage,     \* self._quick_stage: 1, 2 or 3
  quick_buffer,    \* self._quick_buffer
  focus,           \* "comment" when root.focus_get() is the comment box
  op,              \* the handler that ran last
  ret,             \* result of save_current in that handler
  export,          \* outcome of export_gradebook in that handler
  book             \* the workbook it wrote to gradebook_export.xlsx

vars == <<pdf_paths, idx, df, csv, var_class_time, var_name, var_student_id,
          var_file, entry_q1, entry_q2, var_total, text_comment, quick_stage,
          quick_buffer, focus, op, ret, export, book>>

metaVars == <<var_class_time, var_name, var_student_id, var_file>>

\* ------------------------------------------------------- the grade table
\* what to_csv writes for a cell: NaN as the empty text, the rest as str()
CsvScore(c) == IF isna(c) THEN <<>> ELSE CellStr(c)

CsvText(c) == IF isnaText(c) THEN <<>> ELSE c

\* df.to_csv(OUT_CSV, index=False): every cell written as text
to_csv(table) ==
  [kind |-> "table",
   rows |-> [i \in 1..Len(table) |->
               [class_time |-> CsvText(table[i].class_time),
                name |-> CsvText(table[i].name),
                student_id |-> CsvText(table[i].student_id),
                q1_score |-> CsvScore(table[i].q1_score),
                q2_score |-> CsvScore(table[i].q2_score),
                total_score |-> Str(table[i].total_score),
                comment |-> CsvText(table[i].comment),
                file |-> CsvText(table[i].file)]]]

\* the number read_csv finds in a text: an integer literal, or an integer
\* literal followed by ".0"; None when the text is no number
NumOf(t) ==
  LET n == Len(t)
  IN  IF n >= 3 /\ SubSeq(t, n - 1, n) = <<".", "0">>
      THEN IntOf(SubSeq(t, 1, n - 2))
      ELSE IntOf(t)

\* the texts of column f of the file
ColTexts(rows, f) == [i \in 1..Len(rows) |-> rows[i][f]]

\* the dtype read_csv infers for a column: int64 when every cell is an
\* integer literal, float64 when the cells are numbers and blanks (a blank
\* is NaN, which int64 cannot hold), object otherwise
Dtype(col) ==
  IF \E i \in 1..Len(col) : col[i] # <<>> /\ NumOf(col[i]) = None
  THEN "object"
  ELSE IF \A i \in 1..Len(col) : col[i] # <<>> /\ IntOf(col[i]) # None
  THEN "int64"
  ELSE "float64"

\* a cell of a score column as read_csv gives it (the files are those the
\* program wrote: their score columns hold numbers and blanks)
LoadScore(col, i) ==
  IF col[i] = <<>> \/ NumOf(col[i]) = None THEN NaNCell
  ELSE IF Dtype(col) = "int64" THEN IntCell(NumOf(col[i])[1])
  ELSE FloatCell(NumOf(col[i])[1])

\* a cell of another column as read_csv gives it, numbers shown through
\* str(): 7 for the text "007" in an int64 column, 7.0 in a float64 column
LoadText(col, i) ==
  IF col[i] = <<>> THEN NaNText
  ELSE IF Dtype(col) = "int64" THEN Str(NumOf(col[i])[1])
  ELSE IF Dtype(col) = "float64" THEN Str(NumOf(col[i])[1]) \o <<".", "0">>
  ELSE col[i]

\* _load_existing_csv: a missing or unreadable file gives the empty table;
\* otherwise pd.read_csv, which infers a dtype for every column
load_existing_csv(file) ==
  IF file.kind # "table" THEN <<>>
  ELSE LET rows == file.rows
       IN  [i \in 1..Len(rows) |->
              [class_time |-> LoadText(ColTexts(rows, "class_time"), i),
               name |-> LoadText(ColTexts(rows, "name"), i),
               student_id |-> LoadText(ColTexts(rows, "student_id"), i),
               q1_score |-> LoadScore(ColTexts(rows, "q1_score"), i),
               q2_score |-> LoadScore(ColTexts(rows, "q2_score"), i),
               total_score |-> safe_int_or_zero(rows[i].total_score),
               comment |-> LoadText(ColTexts(rows, "comment"), i),
               file |-> LoadText(ColTexts(rows, "file"), i)]]

\* matching on the name column instead of student_id
Matches_OnName(table, sid) == {i \in 1..Len(table) : table[i].name = sid}

\* rows whose student_id equals sid: df["student_id"].astype(str) == sid
Matches(table, sid) ==
  {i \in 1..Len(table) : TextStr(table[i].student_id) = sid}

\* the first of the matching rows instead of the last
LastMatch_First(table, sid) ==
  CHOOSE i \in Matches(table, sid) : \A j \in Matches(table, sid) : i <= j

\* index[-1] of the matching rows
LastMatch(table, sid) ==
  CHOOSE i \in Matches(table, sid) : \A j \in Matches(table, sid) : j <= i

\* an upsert that never looks for an existing row
Upsert_AlwaysAppend(table, rec) == Append(table, rec)

\* an upsert that also matches rows on the empty student_id
Upsert_MatchEmpty(table, rec) ==
  IF {i \in 1..Len(table) : table[i].student_id = rec.student_id} # {}
  THEN [table EXCEPT
          ![CHOOSE i \in 1..Len(table) :
              /\ table[i].student_id = rec.student_id
              /\ \A j \in 1..Len(table) :
                   table[j].student_id = rec.student_id => j <= i] = rec]
  ELSE Append(table, rec)

\* an int written into a score column of dtype float64 (a non-empty column
\* of floats and NaN) is stored as a float, by df.at as by pd.concat; any
\* other write keeps the value, the column turning to object if needed
StoreCell(col, c) ==
  IF /\ c.t = "int"
     /\ col # <<>>
     /\ \A i \in 1..Len(col) : col[i].t \in {"float", "nan"}
  THEN FloatCell(c.v)
  ELSE c

\* the record as the table stores it
Stored(table, rec) ==
  [rec EXCEPT
     !.q1_score = StoreCell([i \in 1..Len(table) |-> table[i].q1_score], @),
     !.q2_score = StoreCell([i \in 1..Len(table) |-> table[i].q2_score], @)]

\* save_current, lines 671-681: overwrite the last matching row, else append
Upsert(table, rec) ==
  IF rec.student_id # <<>> /\ Matches(table, rec.student_id) # {}
  THEN [table EXCEPT ![LastMatch(table, rec.student_id)] = Stored(table, rec)]
  ELSE Append(table, Stored(table, rec))

\* ---------------------------------------------------------- the workbook
\* the characters of the model in code point order; "fen", "wei" and "zu"
\* stand for the characters U+5206, U+672A and U+7EC4 of the label for rows
\* without class_time
CodeOrder ==
  <<" ", "+", "-", ".", "0", "1", "2", "3", "4", "5", "6", "7", "8", "9",
    "_", "a", "b", "c", "d", "e", "f", "g", "h", "i", "j", "k", "l", "m",
    "n", "o", "p", "q", "r", "s", "t", "u", "v", "w", "x", "y", "z", "sup2",
    "fen", "wei", "zu">>

CodePoint(c) == CHOOSE i \in 1..Len(CodeOrder) : CodeOrder[i] = c

RECURSIVE StrLess(_, _)
\* a < b for Python strings
StrLess(a, b) ==
  IF b = <<>> THEN FALSE
  ELSE IF a = <<>> THEN TRUE
  ELSE IF Head(a) = Head(b) THEN StrLess(Tail(a), Tail(b))
  ELSE CodePoint(Head(a)) < CodePoint(Head(b))

\* the label of the sheet for rows without class_time
Ungrouped == <<"wei", "fen", "zu">>

\* Excel's limit on the length of a sheet name
SheetNameLimit == 31

\* the sentinel 10**18 of sort_key_sid, as its decimal digits (integers of
\* this size are compared through their digits)
Sentinel == <<"1">> \o [i \in 1..18 |-> "0"]

RECURSIVE DropZeros(_)
\* the decimal digits of int(s) for a text s of decimal digits
DropZeros(s) ==
  IF Len(s) > 1 /\ Head(s) = "0" THEN DropZeros(Tail(s)) ELSE s

\* a < b for two non-negative integers given by their digits
NumLess(a, b) ==
  \/ Len(a) < Len(b)
  \/ Len(a) = Len(b) /\ StrLess(a, b)

\* s.isdigit() of str(cell).strip()
SidIsDigit(cell) ==
  LET s == Strip(TextStr(cell))
  IN  s # <<>> /\ \A i \in 1..Len(s) : IsDigit(s[i])

\* int(s) raises ValueError: isdigit() holds but some character is not decimal
SidRaises(cell) == SidIsDigit(cell) /\ ~AllDecimal(Strip(TextStr(cell)))

\* sort_key_sid, lines 147-149
sort_key_sid(cell) ==
  IF SidIsDigit(cell) THEN DropZeros(Strip(TextStr(cell))) ELSE Sentinel

\* order of two cells of a text column in sort_values: NaN last
CellLess(a, b) ==
  IF isnaText(a) THEN FALSE
  ELSE IF isnaText(b) THEN TRUE
  ELSE StrLess(a, b)

\* row a comes before row b in sort_values(["__sid_sort", "student_id",
\* "name"]), line 152
RowLess(a, b) ==
  LET ka == sort_key_sid(a.student_id)
      kb == sort_key_sid(b.student_id)
  IN  \/ NumLess(ka, kb)
      \/ /\ ka = kb
         /\ \/ CellLess(a.student_id, b.student_id)
            \/ a.student_id = b.student_id /\ CellLess(a.name, b.name)

RECURSIVE Insert(_, _)
\* r put into the sorted sequence rows, after the rows that are not greater
Insert(rows, r) ==
  IF rows = <<>> THEN <<r>>
  ELSE IF RowLess(r, Head(rows)) THEN <<r>> \o rows
  ELSE <<Head(rows)>> \o Insert(Tail(rows), r)

RECURSIVE SortRows(_)
\* sort_values: rows that compare equal keep their order
SortRows(rows) ==
  IF rows = <<>> THEN <<>>
  ELSE Insert(SortRows(SubSeq(rows, 1, Len(rows) - 1)), rows[Len(rows)])

\* df2["class_time_str"]: astype(str), after which fillna("") finds nothing
class_time_str(row) == TextStr(row.class_time)

\* line 125: the label a row contributes to class_times
LabelOf(row) ==
  IF Strip(class_time_str(row)) # <<>> THEN class_time_str(row) ELSE Ungrouped

RECURSIVE SortedSeq(_)
\* sorted(set(...)) of texts
SortedSeq(S) ==
  IF S = {} THEN <<>>
  ELSE LET m == CHOOSE x \in S : \A y \in S \ {x} : StrLess(x, y)
       IN  <<m>> \o SortedSeq(S \ {m})

\* class_times, line 125
class_times(table) ==
  SortedSeq({LabelOf(table[i]) : i \in 1..Len(table)})

\* sub, lines 142-144: the rows whose stripped class_time_str equals the
\* label, or is empty for the label of rows without class_time
SubFrame(table, ct) ==
  LET IsIn(row) ==
        Strip(class_time_str(row)) = (IF ct # Ungrouped THEN ct ELSE <<>>)
  IN  SelectSeq(table, IsIn)

RECURSIVE FreeName(_, _, _)
\* the loop of lines 135-138 from suffix k on
FreeName(base_name, k, sheetnames) ==
  LET suffix == <<"_">> \o Str(k)
      name == IF Len(base_name) + Len(suffix) > SheetNameLimit
              THEN SubSeq(base_name, 1, SheetNameLimit - Len(suffix)) \o suffix
              ELSE base_name \o suffix
  IN  IF name \notin sheetnames THEN name
      ELSE FreeName(base_name, k + 1, sheetnames)

\* sheet_name without the cut of line 130-131
SheetName_NoTruncate(ct, sheetnames) ==
  IF ct \notin sheetnames THEN ct ELSE FreeName(ct, 1, sheetnames)

\* sheet_name, lines 128-138
SheetName(ct, sheetnames) ==
  LET base_name == IF Len(ct) > SheetNameLimit
                   THEN SubSeq(ct, 1, SheetNameLimit) ELSE ct
  IN  IF base_name \notin sheetnames THEN base_name
      ELSE FreeName(base_name, 1, sheetnames)

\* lines 183-184 and 192-195: str(value or "").strip() == ""
IsMissing(cell) ==
  Strip(IF Truthy(cell) THEN CellStr(cell) ELSE <<>>) = <<>>

\* lines 181-182 and 187: the name or the student_id shows as empty
IsAlert(row) ==
  \/ Strip(TextStr(row.name)) = <<>>
  \/ Strip(TextStr(row.student_id)) = <<>>

\* a row of a sheet with the fills its cells end up with: "alert" on every
\* cell of an alert row, then "missing" put over the q1 and q2 cells
Styled(row) ==
  [rec |-> row,
   alert |-> IsAlert(row),
   q1_fill |-> IF IsMissing(row.q1_score) THEN "missing"
               ELSE IF IsAlert(row) THEN "alert" ELSE "none",
   q2_fill |-> IF IsMissing(row.q2_score) THEN "missing"
               ELSE IF IsAlert(row) THEN "alert" ELSE "none"]

RECURSIVE Sheets(_, _, _)
\* the loop over class_times, lines 127-195
Sheets(table, cts, sheetnames) ==
  IF cts = <<>> THEN <<>>
  ELSE LET name == SheetName(Head(cts), sheetnames)
           sub == SortRows(SubFrame(table, Head(cts)))
       IN  <<[title |-> name,
              rows |-> [i \in 1..Len(sub) |-> Styled(sub[i])]]>>
           \o Sheets(table, Tail(cts), sheetnames \cup {name})

\* the workbook export_gradebook builds
export_gradebook(table) == Sheets(table, class_times(table), {})

\* export_gradebook raises: int() fails in sort_key_sid on a student_id whose
\* characters pass isdigit() without all being decimal, or wb.save finds a
\* workbook without any sheet (the table is empty)
ExportRaises(table) ==
  \/ table = <<>>
  \/ \E k \in 1..Len(class_times(table)) :
       LET sub == SubFrame(table, class_times(table)[k])
       IN  \E i \in 1..Len(sub) : SidRaises(sub[i].student_id)

\* _compute_total
compute_total(e1, e2) ==
  LET q1 == clamp_int(e1, 0, 50)
      q2 == clamp_int(e2, 0, 50)
  IN  [q1 |-> q1, q2 |-> q2, total |-> OrZero(q1) + OrZero(q2)]

\* the record save_current builds from the widgets, lines 660-669
BuildRecord(ct, nm, sid, e1, e2, cm, fl) ==
  LET t == compute_total(e1, e2)
      cell(q) == IF q = None THEN EmptyCell ELSE IntCell(q[1])
  IN  Row(ct, nm, Strip(sid), cell(t.q1), cell(t.q2), t.total, Strip(cm), fl)

CurRecord ==
  BuildRecord(var_class_time, var_name, var_student_id, entry_q1, entry_q2,
              text_comment, var_file)

\* a test of the raw entry texts for emptiness instead of the parsed scores
HasScore_RawEmpty(e1, e2) == ~(e1 = <<>> /\ e2 = <<>>)

\* the test of lines 656-658: at least one score is present
HasScore(e1, e2) ==
  ~(compute_total(e1, e2).q1 = None /\ compute_total(e1, e2).q2 = None)

\* a save that keeps nothing but the record it writes
SavedTable_OnlyRecord ==
  IF HasScore(entry_q1, entry_q2) THEN <<CurRecord>> ELSE df

\* the table after save_current (unchanged when the save is rejected)
SavedTable ==
  IF HasScore(entry_q1, entry_q2) THEN Upsert(df, CurRecord) ELSE df

\* the cap on the table size: a save that would append is not taken when
\* the table is full
WithinCap == Len(SavedTable) <= MaxRows

\* _populate_existing: the widgets after looking up student_id
populate_existing(table, student_id) ==
  LET sid == Strip(student_id)
      blank == [e1 |-> <<>>, e2 |-> <<>>, total |-> 0, comment |-> <<>>]
  IN  IF sid = <<>> \/ Matches(table, sid) = {} THEN blank
      ELSE LET row == table[LastMatch(table, sid)]
               q1v == IF isna(row.q1_score) THEN <<>>
                      ELSE Strip(CellStr(row.q1_score))
               q2v == IF isna(row.q2_score) THEN <<>>
                      ELSE Strip(CellStr(row.q2_score))
           IN  [e1 |-> q1v, e2 |-> q2v,
                total |-> safe_int_or_zero(q1v) + safe_int_or_zero(q2v),
                comment |-> IF isnaText(row.comment) THEN <<>> ELSE row.comment]

\* self.idx after _load_pdf(i)
ClampIdx(paths, i) == Max(0, Min(i, Len(paths) - 1))

\* _load_pdf without its final _reset_quick
LoadPdf_NoReset(paths, i, table) ==
  LET j == IF i < 0 THEN 0 ELSE IF i > Len(paths) - 1 THEN Len(paths) - 1 ELSE i
      path == paths[j + 1]
      meta == parse_filename_meta(path)
      w == populate_existing(table, meta.student_id)
  IN  /\ idx' = j
      /\ var_class_time' = meta.class_time
      /\ var_name' = meta.name
      /\ var_student_id' = meta.student_id
      /\ var_file' = path
      /\ entry_q1' = w.e1
      /\ entry_q2' = w.e2
      /\ var_total' = w.total
      /\ text_comment' = w.comment
      /\ UNCHANGED <<quick_stage, quick_buffer>>

\* _load_pdf(i) on a non-empty list: cursor, labels, widgets, quick state
LoadPdf(paths, i, table) ==
  LET j == ClampIdx(paths, i)
      path == paths[j + 1]
      meta == parse_filename_meta(path)
      w == populate_existing(table, meta.student_id)
  IN  /\ idx' = j
      /\ var_class_time' = meta.class_time
      /\ var_name' = meta.name
      /\ var_student_id' = meta.student_id
      /\ var_file' = path
      /\ entry_q1' = w.e1
      /\ entry_q2' = w.e2
      /\ var_total' = w.total
      /\ text_comment' = w.comment
      /\ quick_stage' = 1
      /\ quick_buffer' = <<>>

loadVars == <<idx, var_class_time, var_name, var_student_id, var_file,
              entry_q1, entry_q2, var_total, text_comment, quick_stage,
              quick_buffer>>

\* ------------------------------------------------------------------ Init
\* __init__: scan the default folder, load the CSV, build the widgets and
\* load the first submission when there is one
InitWith(dirs, files) ==
  \E d \in dirs, file \in files :
    LET table == load_existing_csv(file)
        meta == parse_filename_meta(d[1])
        w == populate_existing(table, meta.student_id)
    IN  /\ pdf_paths = d
        /\ csv = file
        /\ df = table
        /\ idx = 0
        /\ quick_stage = 1
        /\ quick_buffer = <<>>
        /\ focus = "other"
        /\ op = "init"
        /\ ret = "none"
        /\ export = "none"
        /\ book = <<>>
        /\ IF d = <<>>
           THEN /\ var_class_time = <<>> /\ var_name = <<>>
                /\ var_student_id = <<>> /\ var_file = <<>>
                /\ entry_q1 = <<>> /\ entry_q2 = <<>>
                /\ var_total = 0 /\ text_comment = <<>>
           ELSE /\ var_class_time = meta.class_time /\ var_name = meta.name
                /\ var_student_id = meta.student_id /\ var_file = d[1]
                /\ entry_q1 = w.e1 /\ entry_q2 = w.e2
                /\ var_total = w.total /\ text_comment = w.comment

Init == InitWith(Dirs, InitFiles)

\* ------------------------------------------------------ quick-entry steps
\* int(self._quick_buffer) with "except: 0", then max(0, min(50, .))
BufferValue(buf) ==
  LET p == IntOf(buf)
  IN  Max(0, Min(50, IF p = None THEN 0 ELSE p[1]))

\* _preview_quick_value(stage) for stage 1 or 2: the entry of that stage
\* shows the clamped buffer, or is cleared when the buffer is blank
PreviewText(buf) == IF Strip(buf) = <<>> THEN <<>> ELSE Str(BufferValue(buf))

\* _commit_quick_buffer for stage 1 or 2: a blank buffer commits 0
CommitText(buf) == IF Strip(buf) = <<>> THEN Str(0) ELSE Str(BufferValue(buf))

\* lines 584-588: at most two characters, a third one restarts the buffer
PushDigit(buf, ch) == IF Len(buf) >= 2 THEN <<ch>> ELSE Append(buf, ch)

\* a backspace that empties the buffer
DropLast_All(buf) == <<>>

\* line 598
DropLast(buf) == IF buf # <<>> THEN SubSeq(buf, 1, Len(buf) - 1) ELSE buf

\* write text into the entry of the given stage and recompute the total
SetStageEntry(stage, text) ==
  LET e1 == IF stage = 1 THEN text ELSE entry_q1
      e2 == IF stage = 1 THEN entry_q2 ELSE text
  IN  /\ entry_q1' = e1
      /\ entry_q2' = e2
      /\ var_total' = compute_total(e1, e2).total

\* a focus test that never reports the comment box
focus_in_comment_Never == FALSE

\* _focus_in_comment
focus_in_comment == focus = "comment"

noExport == export' = "none" /\ book' = <<>>

noSave == ret' = "none" /\ noExport /\ UNCHANGED <<df, csv>>

\* _on_keypress
KeyPress(ch) ==
  /\ op' = "keypress"
  /\ noSave
  /\ UNCHANGED <<pdf_paths, idx, metaVars, text_comment, quick_stage, focus>>
  /\ IF focus_in_comment \/ quick_stage \notin {1, 2} \/ ~IsDigit(ch)
     THEN UNCHANGED <<entry_q1, entry_q2, var_total, quick_buffer>>
     ELSE /\ quick_buffer' = PushDigit(quick_buffer, ch)
          /\ SetStageEntry(quick_stage, PreviewText(quick_buffer'))

\* _on_backspace without the test of the stage
Backspace_AnyStage ==
  /\ op' = "backspace"
  /\ noSave
  /\ UNCHANGED <<pdf_paths, idx, metaVars, text_comment, quick_stage, focus>>
  /\ IF focus_in_comment
     THEN UNCHANGED <<entry_q1, entry_q2, var_total, quick_buffer>>
     ELSE /\ quick_buffer' = DropLast(quick_buffer)
          /\ SetStageEntry(quick_stage, PreviewText(quick_buffer'))

\* _on_backspace
Backspace ==
  /\ op' = "backspace"
  /\ noSave
  /\ UNCHANGED <<pdf_paths, idx, metaVars, text_comment, quick_stage, focus>>
  /\ IF focus_in_comment \/ quick_stage \notin {1, 2}
     THEN UNCHANGED <<entry_q1, entry_q2, var_total, quick_buffer>>
     ELSE /\ quick_buffer' = DropLast(quick_buffer)
          /\ SetStageEntry(quick_stage, PreviewText(quick_buffer'))

\* _reset_quick that leaves the stage where it is
ResetQuick_KeepStage == quick_stage' = quick_stage /\ quick_buffer' = <<>>

\* _reset_quick that forgets to clear the buffer
ResetQuick_KeepBuffer == quick_stage' = 1 /\ UNCHANGED quick_buffer

\* _reset_quick(stage=1)
ResetQuick == quick_stage' = 1 /\ quick_buffer' = <<>>

\* _on_escape
Escape ==
  /\ op' = "escape"
  /\ noSave
  /\ UNCHANGED <<pdf_paths, idx, metaVars, text_comment, focus, entry_q1,
                 entry_q2, var_total>>
  /\ IF focus_in_comment
     THEN UNCHANGED <<quick_stage, quick_buffer>>
     ELSE ResetQuick

\* save_current writing the file before it updates the table
SaveStep_StaleFile ==
  /\ WithinCap
  /\ df' = SavedTable
  /\ IF HasScore(entry_q1, entry_q2)
     THEN csv' = to_csv(df) /\ ret' = "ok"
     ELSE csv' = csv /\ ret' = "rejected"

\* the part of save_current before "return": totals, table, file, result
SaveStep ==
  /\ WithinCap
  /\ df' = SavedTable
  /\ IF HasScore(entry_q1, entry_q2)
     THEN csv' = to_csv(df') /\ ret' = "ok"
     ELSE csv' = csv /\ ret' = "rejected"

\* save_current (button, Ctrl+S)
SaveCurrent ==
  /\ op' = "save_current"
  /\ SaveStep
  /\ noExport
  /\ var_total' = compute_total(entry_q1, entry_q2).total
  /\ UNCHANGED <<pdf_paths, idx, metaVars, entry_q1, entry_q2, text_comment,
                 quick_stage, quick_buffer, focus>>

\* save_and_next that moves on whatever save_current returned
SaveAndNextStep_AlwaysNext ==
  /\ SaveStep
  /\ noExport
  /\ UNCHANGED <<pdf_paths, focus>>
  /\ IF idx < Len(pdf_paths) - 1
     THEN LoadPdf(pdf_paths, idx + 1, df')
     ELSE /\ var_total' = compute_total(entry_q1, entry_q2).total
          /\ UNCHANGED <<idx, metaVars, entry_q1, entry_q2, text_comment,
                         quick_stage, quick_buffer>>

\* save_and_next without the bookkeeping of op: save, then load the next
\* submission when the save succeeded and there is one
SaveAndNextStep ==
  /\ SaveStep
  /\ noExport
  /\ UNCHANGED <<pdf_paths, focus>>
  /\ IF HasScore(entry_q1, entry_q2) /\ idx < Len(pdf_paths) - 1
     THEN LoadPdf(pdf_paths, idx + 1, df')
     ELSE /\ var_total' = compute_total(entry_q1, entry_q2).total
          /\ UNCHANGED <<idx, metaVars, entry_q1, entry_q2, text_comment,
                         quick_stage, quick_buffer>>

\* save_and_next (button)
SaveAndNext ==
  /\ op' = "save_and_next"
  /\ SaveAndNextStep

\* _on_enter
Enter ==
  /\ op' = "enter"
  /\ IF focus_in_comment
     THEN /\ noSave
          /\ UNCHANGED <<pdf_paths, idx, metaVars, text_comment, focus,
                         entry_q1, entry_q2, var_total, quick_stage,
                         quick_buffer>>
     ELSE IF quick_stage \in {1, 2}
     THEN /\ noSave
          /\ UNCHANGED <<pdf_paths, idx, metaVars, text_comment, focus>>
          /\ SetStageEntry(quick_stage, CommitText(quick_buffer))
          /\ quick_stage' = quick_stage + 1
          /\ quick_buffer' = <<>>
     ELSE \* stage 3: save_and_next(), then _reset_quick(stage=1)
          /\ SaveStep
          /\ noExport
          /\ UNCHANGED <<pdf_paths, focus>>
          /\ ResetQuick
          /\ IF HasScore(entry_q1, entry_q2) /\ idx < Len(pdf_paths) - 1
             THEN LET j == ClampIdx(pdf_paths, idx + 1)
                      path == pdf_paths[j + 1]
                      meta == parse_filename_meta(path)
                      w == populate_existing(df', meta.student_id)
                  IN  /\ idx' = j
                      /\ var_class_time' = meta.class_time
                      /\ var_name' = meta.name
                      /\ var_student_id' = meta.student_id
                      /\ var_file' = path
                      /\ entry_q1' = w.e1
                      /\ entry_q2' = w.e2
                      /\ var_total' = w.total
                      /\ text_comment' = w.comment
             ELSE /\ var_total' = compute_total(entry_q1, entry_q2).total
                  /\ UNCHANGED <<idx, metaVars, entry_q1, entry_q2,
                                 text_comment>>

\* prev_pdf
PrevPdf ==
  /\ op' = "prev_pdf"
  /\ noSave
  /\ UNCHANGED <<pdf_paths, focus>>
  /\ IF idx > 0
     THEN LoadPdf(pdf_paths, idx - 1, df)
     ELSE UNCHANGED loadVars

\* next_pdf
NextPdf ==
  /\ op' = "next_pdf"
  /\ noSave
  /\ UNCHANGED <<pdf_paths, focus>>
  /\ IF idx < Len(pdf_paths) - 1
     THEN LoadPdf(pdf_paths, idx + 1, df)
     ELSE UNCHANGED loadVars

\* export_excel: save_current() with its result ignored, then
\* export_gradebook inside try/except.  The export fails when
\* export_gradebook raises by itself, or when writing the file fails (~ok).
ExportExcel(ok) ==
  /\ op' = "export_excel"
  /\ SaveStep
  /\ IF ok /\ ~ExportRaises(df')
     THEN export' = "ok" /\ book' = export_gradebook(df')
     ELSE export' = "failed" /\ book' = <<>>
  /\ var_total' = compute_total(entry_q1, entry_q2).total
  /\ UNCHANGED <<pdf_paths, idx, metaVars, entry_q1, entry_q2, text_comment,
                 quick_stage, quick_buffer, focus>>

\* choose_submissions_dir: sel is the list _scan_pdfs finds in the chosen
\* folder; cancelled is an empty answer of the dialog
ChooseDir(cancelled, sel) ==
  /\ op' = "choose_dir"
  /\ noSave
  /\ UNCHANGED focus
  /\ IF cancelled
     THEN UNCHANGED <<pdf_paths, loadVars>>
     ELSE /\ pdf_paths' = sel
          /\ IF sel = <<>>
             THEN /\ idx' = 0
                  /\ var_file' = <<>>
                  /\ var_name' = <<>>
                  /\ var_student_id' = <<>>
                  /\ var_class_time' = <<>>
                  /\ UNCHANGED <<entry_q1, entry_q2, var_total, text_comment,
                                 quick_stage, quick_buffer>>
             ELSE LoadPdf(sel, 0, df)

\* the grader edits a score entry directly (typing or pasting in the entry);
\* on_score_change refreshes the total
EditQ1(text) ==
  /\ op' = "edit"
  /\ noSave
  /\ SetStageEntry(1, text)
  /\ UNCHANGED <<pdf_paths, idx, metaVars, text_comment, quick_stage,
                 quick_buffer, focus>>

EditQ2(text) ==
  /\ op' = "edit"
  /\ noSave
  /\ SetStageEntry(2, text)
  /\ UNCHANGED <<pdf_paths, idx, metaVars, text_comment, quick_stage,
                 quick_buffer, focus>>

\* the grader edits the comment box while it has the focus
EditComment(text) ==
  /\ focus = "comment"
  /\ op' = "edit"
  /\ noSave
  /\ text_comment' = text
  /\ UNCHANGED <<pdf_paths, idx, metaVars, entry_q1, entry_q2, var_total,
                 quick_stage, quick_buffer, focus>>

\* the focus moves into or out of the comment box
SetFocus(f) ==
  /\ focus # f
  /\ focus' = f
  /\ op' = "focus"
  /\ noSave
  /\ UNCHANGED <<pdf_paths, idx, metaVars, entry_q1, entry_q2, var_total,
                 text_comment, quick_stage, quick_buffer>>

\* the program is closed and started again: __init__ reads manual_grades.csv
\* as the last save left it and loads the first submission of the default
\* folder, whose PDFs are now d
Restart(d) ==
  /\ op' = "restart"
  /\ ret' = "none"
  /\ noExport
  /\ csv' = csv
  /\ df' = load_existing_csv(csv)
  /\ pdf_paths' = d
  /\ focus' = "other"
  /\ IF d = <<>>
     THEN /\ idx' = 0
          /\ var_class_time' = <<>> /\ var_name' = <<>>
          /\ var_student_id' = <<>> /\ var_file' = <<>>
          /\ entry_q1' = <<>> /\ entry_q2' = <<>>
          /\ var_total' = 0 /\ text_comment' = <<>>
          /\ quick_stage' = 1 /\ quick_buffer' = <<>>
     ELSE LoadPdf(d, 0, df')

Next ==
  \/ \E d \in Dirs : Restart(d)
  \/ \E ch \in Keys : KeyPress(ch)
  \/ Backspace
  \/ Enter
  \/ Escape
  \/ SaveCurrent
  \/ SaveAndNext
  \/ PrevPdf
  \/ NextPdf
  \/ \E ok \in BOOLEAN : ExportExcel(ok)
  \/ \E c \in BOOLEAN, sel \in Dirs : ChooseDir(c, sel)
  \/ \E t \in EntryTexts : EditQ1(t)
  \/ \E t \in EntryTexts : EditQ2(t)
  \/ \E t \in CommentTexts : EditComment(t)
  \/ \E f \in {"comment", "other"} : SetFocus(f)

Spec == Init /\ [][Next]_vars

\* ------------------------------------------- sessions that are checked
\* The full relation Next is explored through families of sessions, each a
\* set of behaviours of Spec: the same actions with fewer inputs.

\* Sessions of the grade table: the grader fills the score entries directly
\* and uses the buttons (save, save and next, previous, next, export, choose
\* folder).
StoreQ1Texts == {<<"x">>, <<"9", "9", " ">>}

StoreQ2Texts == {<<"-", "3">>}

StoreDirs == {DirNone, DirOne}

InitStore == InitWith(StoreDirs, InitFiles)

NextStore ==
  \/ SaveCurrent
  \/ SaveAndNext
  \/ PrevPdf
  \/ NextPdf
  \/ \E ok \in BOOLEAN : ExportExcel(ok)
  \/ \E c \in BOOLEAN, sel \in StoreDirs : ChooseDir(c, sel)
  \/ \E t \in StoreQ1Texts : EditQ1(t)
  \/ \E t \in StoreQ2Texts : EditQ2(t)

SpecStore == InitStore /\ [][NextStore]_vars

\* Sessions of the quick-entry machine: every key handler, a text typed into
\* a score entry, navigation, save and next, with a grade table read from a
\* file that already holds MaxRows rows (one for student 1, the others for
\* students whose submissions are not in the folder), so that saves can only
\* overwrite the row of student 1.
QuickKeys == {"5", "sup2", "a"}

QuickDirs == {DirNone, DirOne, DirSolo}

QuickFile ==
  [kind |-> "table",
   rows |-> [i \in 1..MaxRows |->
      IF i = 1
      THEN Row(<<"m">>, <<"a">>, <<"1">>, <<"5">>, <<"5", "0">>,
               <<"5", "5">>, <<>>, FileA)
      ELSE Row(<<"m">>, <<"c">>, Str(5 + i), <<"5">>, <<"5">>, <<"1", "0">>,
               <<>>, <<"m", "-", "c", "-">> \o Str(5 + i) \o Pdf)]]

InitQuick == InitWith(QuickDirs, {QuickFile})

\* text put directly into a score entry during these sessions
QuickTexts == {<<"x">>}

NextQuick ==
  \/ \E t \in QuickTexts : EditQ1(t)
  \/ \E t \in QuickTexts : EditQ2(t)
  \/ \E ch \in QuickKeys : KeyPress(ch)
  \/ Backspace
  \/ Enter
  \/ Escape
  \/ SaveAndNext
  \/ PrevPdf
  \/ NextPdf
  \/ \E c \in BOOLEAN, sel \in QuickDirs : ChooseDir(c, sel)
  \/ \E f \in {"comment", "other"} : SetFocus(f)

SpecQuick == InitQuick /\ [][NextQuick]_vars

\* Sessions of the export: a folder of class m with student 7, a student
\* whose id is 10**18 + 1, a student with the id x, one whose id is the
\* character U+00B2 and one without id; the grader enters 0 or nothing for
\* q1 and 5 or nothing for q2, saves, moves and exports.
FileSeven == <<"m", "-", "a", "-", "7">> \o Pdf

FileBig == <<"m", "-", "b", "-", "1">> \o [i \in 1..17 |-> "0"] \o <<"1">> \o Pdf

FileX == <<"m", "-", "c", "-", "x">> \o Pdf

FileSup == <<"m", "-", "d", "-", "sup2">> \o Pdf

FileNoId == <<"m", "-", "e", "-">> \o Pdf

ExportDir == <<FileSeven, FileBig, FileX, FileSup, FileNoId>>

ExportQ1Texts == {<<>>, <<"0">>}

ExportQ2Texts == {<<>>, <<"5">>}

InitExport == InitWith({ExportDir}, {[kind |-> "absent", rows |-> <<>>]})

NextExport ==
  \/ \E t \in ExportQ1Texts : EditQ1(t)
  \/ \E t \in ExportQ2Texts : EditQ2(t)
  \/ SaveAndNext
  \/ PrevPdf
  \/ NextPdf
  \/ \E ok \in BOOLEAN : ExportExcel(ok)

SpecExport == InitExport /\ [][NextExport]_vars

\* Sessions of the sheets of the workbook: the folder holds a submission
\* without class_time and name and one whose class_time is the label of the
\* ungrouped sheet; manual_grades.csv is absent or holds rows the program
\* wrote in an earlier run, among them rows whose class_time is 31 or 32
\* characters long.  The grader types 5 for q1, saves, moves and exports.
FileBare == <<"-", "-", "2">> \o Pdf

FileUn == Ungrouped \o <<"-", "a", "-", "1">> \o Pdf

SheetDir == <<FileBare, FileUn>>

LabelExact == [i \in 1..SheetNameLimit |-> "a"]

LabelLongB == LabelExact \o <<"b">>

LabelLongC == LabelExact \o <<"c">>

LabelSuffixed == [i \in 1..(SheetNameLimit - 2) |-> "a"] \o <<"_", "1">>

\* the row save_current wrote for the submission class_time-name-id.pdf
\* graded 5 and 5
SheetRow(ct, nm, sid) ==
  Row(ct, nm, sid, <<"5">>, <<"5">>, <<"1", "0">>, <<>>,
      ct \o <<"-">> \o nm \o <<"-">> \o sid \o Pdf)

SheetRowSet ==
  {SheetRow(<<>>, <<>>, <<"2">>),
   SheetRow(LabelExact, <<"a">>, <<"3">>),
   SheetRow(LabelLongB, <<"a">>, <<"4">>),
   SheetRow(LabelLongC, <<"a">>, <<"5">>),
   SheetRow(LabelSuffixed, <<"a">>, <<"6">>)}

\* the tables of 1 to MaxRows different rows
SheetTables ==
  {t \in UNION {[1..n -> SheetRowSet] : n \in 1..MaxRows} :
     \A i, j \in 1..Len(t) : i # j => t[i] # t[j]}

SheetFiles ==
  {[kind |-> "absent", rows |-> <<>>]}
    \cup {[kind |-> "table", rows |-> t] : t \in SheetTables}

SheetQ1Texts == {<<"5">>}

SheetQ2Texts == {<<"5">>}

InitSheets == InitWith({SheetDir}, SheetFiles)

NextSheets ==
  \/ \E t \in SheetQ1Texts : EditQ1(t)
  \/ \E t \in SheetQ2Texts : EditQ2(t)
  \/ SaveAndNext
  \/ PrevPdf
  \/ NextPdf
  \/ \E ok \in BOOLEAN : ExportExcel(ok)

SpecSheets == InitSheets /\ [][NextSheets]_vars

\* Sessions over several runs of the program: the folder holds the
\* submissions of the students 01 and 1; the grader types 5 for q1 and 9 for
\* q2, saves, moves, and closes and restarts the program, which then reads
\* the file its saves wrote.
FileLead == <<"m", "-", "a", "-", "0", "1">> \o Pdf

ReloadDir == <<FileLead, FileA>>

ReloadQ1Texts == {<<"5">>}

ReloadQ2Texts == {<<"9">>}

InitReload == InitWith({ReloadDir}, {[kind |-> "absent", rows |-> <<>>]})

NextReload ==
  \/ \E t \in ReloadQ1Texts : EditQ1(t)
  \/ \E t \in ReloadQ2Texts : EditQ2(t)
  \/ SaveCurrent
  \/ PrevPdf
  \/ NextPdf
  \/ Restart(ReloadDir)

SpecReload == InitReload /\ [][NextReload]_vars

\* Sessions of the file-name parser: the folder holds one PDF whose stem is any
\* text of at most MaxStem characters over ParseChars, followed by z.pdf; the
\* grader moves between the two submissions.
MaxStem == 5

ParseChars == {"m", " ", "-", "1"}

ParseStems == UNION {[1..k -> ParseChars] : k \in 1..MaxStem}

ParseDirs == {<<stem \o Pdf, FileZ>> : stem \in ParseStems}

InitParse == InitWith(ParseDirs, {[kind |-> "absent", rows |-> <<>>]})

NextParse ==
  \/ PrevPdf
  \/ NextPdf

SpecParse == InitParse /\ [][NextParse]_vars

\* =================================================================== claims

\* ---- C1: from a table with at most one row per non-empty student_id, every
\* sequence of saves, navigation and exports keeps at most one row per
\* non-empty student_id.
C1_UniqueStudentId ==
  \A i, j \in 1..Len(df) :
    (i # j /\ df[i].student_id # <<>>) => df[i].student_id # df[j].student_id

\* a save for student 1 sits in front of a row without student id
C1_Witness ==
  /\ ret = "ok"
  /\ Len(df) = 2
  /\ df[1].student_id = <<"1">>
  /\ df[1].q1_score = IntCell(50)
  /\ df[2].student_id = <<>>

\* ---- C2 (as stated): save_current called twice in a row with unchanged
\* widgets leaves the table as the first call left it.
C2_Original ==
  [][(op = "save_current" /\ ret = "ok" /\ op' = "save_current") => df' = df]_vars

\* ---- C2 (amended): for a record with a non-empty student_id, a second
\* save_current with unchanged widgets leaves the table and the file as the
\* first left them, with exactly one row for that id, equal to the record.
C2_IdempotentWithId ==
  [][(/\ op = "save_current" /\ ret = "ok" /\ op' = "save_current"
      /\ Strip(var_student_id) # <<>>)
     => /\ ret' = "ok"
        /\ df' = df
        /\ csv' = csv
        /\ \E i \in 1..Len(df') :
             /\ df'[i] = CurRecord
             /\ \A j \in 1..Len(df') :
                  df'[j].student_id = Strip(var_student_id) => j = i]_vars

\* the record of student 1 has been saved by save_current and is the only
\* row of that student
C2_Witness ==
  /\ op = "save_current"
  /\ ret = "ok"
  /\ var_student_id = <<"1">>
  /\ Len(df) = 2
  /\ \E i \in 1..Len(df) : df[i] = CurRecord

\* text that int() rejects: the score is absent
AbsentScore(text) == IntOf(text) = None

\* ---- C3: a save attempted while both score entries are absent (empty or
\* not an integer) returns failure and changes neither the table nor the
\* file.
C3_RejectedSave ==
  [][(/\ op' \in {"save_current", "save_and_next", "export_excel"}
      /\ AbsentScore(entry_q1) /\ AbsentScore(entry_q2))
     => (ret' = "rejected" /\ df' = df /\ csv' = csv)]_vars

\* a save was rejected with a non-integer text in q1, the table holding rows
C3_Witness ==
  /\ op = "save_current"
  /\ ret = "rejected"
  /\ entry_q1 = <<"x">>
  /\ entry_q2 = <<>>
  /\ Len(df) = 2

\* a score cell that is absent (the empty string) or a number in 0..50
ValidScore(q) == q = EmptyCell \/ (q.t \in {"int", "float"} /\ q.v \in 0..50)

ValidRow(r) ==
  /\ ValidScore(r.q1_score)
  /\ ValidScore(r.q2_score)
  /\ r.total_score = OrZero(CellValue(r.q1_score))
                      + OrZero(CellValue(r.q2_score))
  /\ r.total_score \in 0..100

\* ---- C4: every row a successful save writes has q1 and q2 absent or in
\* 0..50 and total = (q1 or 0) + (q2 or 0), whatever the entries contained.
C4_WrittenRowValid ==
  [][ret' = "ok" =>
       \A i \in 1..Len(df') :
         (i > Len(df) \/ df'[i] # df[i]) => ValidRow(df'[i])]_vars

\* a row saved from the out-of-range texts "99 " and "-3"
C4_Witness ==
  /\ ret = "ok"
  /\ entry_q1 = <<"9", "9", " ">>
  /\ entry_q2 = <<"-", "3">>
  /\ \E i \in 1..Len(df) :
       /\ df[i].q1_score = IntCell(50)
       /\ df[i].q2_score = IntCell(0)
       /\ df[i].total_score = 50
       /\ df[i].file = var_file

\* ---- C5: when save_current returns success the file holds the whole
\* table, and from then on the file never lags behind the table.
C5_PersistedAfterSave ==
  [][/\ ret' = "ok" => csv' = to_csv(df')
     /\ csv = to_csv(df) => csv' = to_csv(df')]_vars

\* save and next has written the two-row table to the file
C5_Witness ==
  /\ ret = "ok"
  /\ op = "save_and_next"
  /\ Len(df) = 2
  /\ csv.kind = "table"
  /\ Len(csv.rows) = 2

\* ---- C6: a successful save whose student_id is empty or matches no row
\* appends: one more row, the new row last, the old rows kept in place.
C6_Append ==
  [][(/\ ret' = "ok"
      /\ \/ Strip(var_student_id) = <<>>
         \/ \A i \in 1..Len(df) : df[i].student_id # Strip(var_student_id))
     => /\ Len(df') = Len(df) + 1
        /\ \A i \in 1..Len(df) : df'[i] = df[i]
        /\ df'[Len(df')] = CurRecord]_vars

\* two rows without student id, the second one appended by save_current
C6_Witness ==
  /\ op = "save_current"
  /\ ret = "ok"
  /\ Len(df) = 2
  /\ df[1].student_id = <<>>
  /\ df[2].student_id = <<>>
  /\ df[2] = CurRecord

\* the integer a digit character denotes (U+00B2 denotes 2)
ClaimDigitVal(c) == IF c = "sup2" THEN 2 ELSE DigitVal(c)

RECURSIVE ClaimBufferValue(_)
\* the integer value of a buffer of digit characters; 0 for the empty buffer
ClaimBufferValue(buf) ==
  IF buf = <<>> THEN 0
  ELSE 10 * ClaimBufferValue(SubSeq(buf, 1, Len(buf) - 1))
       + ClaimDigitVal(buf[Len(buf)])

\* the effect C7 states for Enter in stage 1 or 2, v being the buffer's value
EnterCommits(v) ==
  /\ (IF quick_stage = 1 THEN entry_q1' ELSE entry_q2') = Str(Min(50, v))
  /\ (IF quick_stage = 1 THEN entry_q2' = entry_q2 ELSE entry_q1' = entry_q1)
  /\ quick_buffer' = <<>>
  /\ quick_stage' = quick_stage + 1
  /\ df' = df
  /\ csv' = csv

\* ---- C7 (as stated): Enter in AwaitingQ1 (AwaitingQ2) with focus outside
\* the comment box writes min(50, value of the digit buffer), 0 for the empty
\* buffer, into q1 (q2), clears the buffer and advances; the other entry and
\* the table are unchanged.
C7_Original ==
  [][(op' = "enter" /\ focus # "comment" /\ quick_stage \in {1, 2})
     => EnterCommits(ClaimBufferValue(quick_buffer))]_vars

\* C7 for the buffers made of the characters 0-9 only (holds)
C7_DecimalBuffers ==
  [][(/\ op' = "enter" /\ focus # "comment" /\ quick_stage \in {1, 2}
      /\ \A i \in 1..Len(quick_buffer) : quick_buffer[i] \in DecimalDigits)
     => EnterCommits(ClaimBufferValue(quick_buffer))]_vars

\* 5, 5, Enter, Enter: q1 = 50, q2 = 0, ready to save
C7_DecimalWitness ==
  /\ op = "enter"
  /\ quick_stage = 3
  /\ quick_buffer = <<>>
  /\ entry_q1 = <<"5", "0">>
  /\ entry_q2 = <<"0">>

\* ---- C8 (as stated): in stage 1 or 2 a digit keystroke appends to the
\* buffer, or restarts it when it already holds two characters; the buffer
\* is always 0, 1 or 2 decimal digits, and empty in ReadyToSave.
C8_Original ==
  /\ [][(/\ op' = "keypress" /\ focus # "comment" /\ quick_stage \in {1, 2}
         /\ quick_buffer' # quick_buffer)
        => \E ch \in DecimalDigits :
             quick_buffer' = IF Len(quick_buffer) = 2 THEN <<ch>>
                             ELSE quick_buffer \o <<ch>>]_vars
  /\ [](/\ Len(quick_buffer) <= 2
        /\ \A i \in 1..Len(quick_buffer) : quick_buffer[i] \in DecimalDigits
        /\ quick_stage = 3 => quick_buffer = <<>>)

\* C8 with "character accepted by str.isdigit()" in place of "decimal digit"
\* (holds)
C8_DigitCharacters ==
  /\ [][(/\ op' = "keypress" /\ focus # "comment" /\ quick_stage \in {1, 2}
         /\ quick_buffer' # quick_buffer)
        => \E ch \in DecimalDigits \cup {"sup2"} :
             quick_buffer' = IF Len(quick_buffer) = 2 THEN <<ch>>
                             ELSE quick_buffer \o <<ch>>]_vars
  /\ [](/\ Len(quick_buffer) <= 2
        /\ \A i \in 1..Len(quick_buffer) :
             quick_buffer[i] \in DecimalDigits \cup {"sup2"}
        /\ quick_stage = 3 => quick_buffer = <<>>)

\* ---- C9 (as stated): Escape in any stage, with any buffer and any focus,
\* leaves the machine in AwaitingQ1 with an empty buffer.
C9_Original ==
  [][op' = "escape" => (quick_stage' = 1 /\ quick_buffer' = <<>>)]_vars

\* ---- C9 (amended): Escape with the focus outside the comment box leaves
\* the machine in AwaitingQ1 with an empty buffer; with the focus in the
\* comment box it leaves stage and buffer as they are.  The score entries
\* are untouched either way.
C9_Escape ==
  [][op' = "escape" =>
       /\ IF focus = "comment"
          THEN quick_stage' = quick_stage /\ quick_buffer' = quick_buffer
          ELSE quick_stage' = 1 /\ quick_buffer' = <<>>
       /\ entry_q1' = entry_q1
       /\ entry_q2' = entry_q2]_vars

\* Escape has reset the machine while q2 shows a typed, unconfirmed 5
C9_Witness ==
  /\ op = "escape"
  /\ focus = "other"
  /\ quick_stage = 1
  /\ quick_buffer = <<>>
  /\ entry_q1 = <<"0">>
  /\ entry_q2 = <<"5">>

\* ---- C10 (as stated): the cursor never changes without the machine being
\* reset to AwaitingQ1 with an empty buffer.
C10_Original ==
  [][idx' # idx => (quick_stage' = 1 /\ quick_buffer' = <<>>)]_vars

\* ---- C10 (amended): whenever a submission is loaded (the cursor moves
\* within a non-empty list, or a folder that contains PDFs is chosen) the
\* machine is in AwaitingQ1 with an empty buffer afterwards; choosing a
\* folder without PDFs puts the cursor at 0 and resets nothing.
C10_LoadResets ==
  [][(/\ pdf_paths' # <<>>
      /\ \/ idx' # idx
         \/ op' = "choose_dir" /\ pdf_paths' # pdf_paths)
     => (quick_stage' = 1 /\ quick_buffer' = <<>>)]_vars

\* save and next has saved student 1 and loaded the second submission
C10_Witness ==
  /\ op = "save_and_next"
  /\ ret = "ok"
  /\ idx = 1
  /\ var_file = FileZ
  /\ quick_stage = 1
  /\ quick_buffer = <<>>

\* the hyphen-delimited segments of the stem of the displayed file
Segments == Split(Stem(var_file), "-")

\* class_time + "-" + name + "-" + student_id reproduces the stem
Reproduces ==
  var_class_time \o <<"-">> \o var_name \o <<"-">> \o var_student_id
    = Stem(var_file)

\* ---- C13 (as stated): for a file name whose stem has at least 3 segments,
\* student_id is the last segment, name the one before it and class_time the
\* leading segments joined with "-", so that the three reproduce the stem.
C13_Original ==
  LET n == Len(Segments)
  IN  (var_file # <<>> /\ n >= 3) =>
        /\ var_student_id = Segments[n]
        /\ var_name = Segments[n - 1]
        /\ var_class_time = Join(SubSeq(Segments, 1, n - 2), "-")
        /\ Reproduces

\* ---- C13 (amended): for a file name whose stem has at least 3 segments,
\* student_id is the last segment, name the one before it and class_time the
\* leading segments joined with "-", each with its surrounding blanks
\* stripped; the three reproduce the stem exactly when nothing was stripped.
C13_StrippedSegments ==
  LET n == Len(Segments)
      lead == Join(SubSeq(Segments, 1, n - 2), "-")
  IN  (var_file # <<>> /\ n >= 3) =>
        /\ var_student_id = Strip(Segments[n])
        /\ var_name = Strip(Segments[n - 1])
        /\ var_class_time = Strip(lead)
        /\ Reproduces <=> (/\ Strip(Segments[n]) = Segments[n]
                           /\ Strip(Segments[n - 1]) = Segments[n - 1]
                           /\ Strip(lead) = lead)

\* "m- -1.pdf" is displayed: class m, a blank name segment, student 1
C13_Witness ==
  /\ var_file = <<"m", "-", " ", "-", "1">> \o Pdf
  /\ op = "prev_pdf"
  /\ var_class_time = <<"m">>
  /\ var_name = <<>>
  /\ var_student_id = <<"1">>

\* the score entry the quick-entry machine is filling in stage 1 or 2
StageEntry == IF quick_stage = 1 THEN entry_q1 ELSE entry_q2

\* ---- C14 (as stated): Escape discards an uncommitted preview: after Escape
\* in AwaitingQ1/AwaitingQ2 the value typed as digits but not confirmed is no
\* longer in the score entry, so that a later save does not write it; the
\* entry committed earlier is untouched.
C14_Original ==
  [][(/\ op' = "escape" /\ focus # "comment" /\ quick_stage \in {1, 2}
      /\ quick_buffer # <<>> /\ StageEntry = Str(BufferValue(quick_buffer)))
     => /\ (IF quick_stage = 1 THEN entry_q1' ELSE entry_q2') # StageEntry
        /\ quick_stage = 2 => entry_q1' = entry_q1]_vars

\* ---- C15 (as stated): Backspace in AwaitingQ1/AwaitingQ2 removes the last
\* buffer character; with an empty buffer it changes neither stage, buffer,
\* score entries nor total.
C15_Original ==
  [][(op' = "backspace" /\ focus # "comment" /\ quick_stage \in {1, 2})
     => IF quick_buffer # <<>>
        THEN /\ quick_buffer' = SubSeq(quick_buffer, 1, Len(quick_buffer) - 1)
             /\ quick_stage' = quick_stage
        ELSE UNCHANGED <<quick_stage, quick_buffer, entry_q1, entry_q2,
                         var_total>>]_vars

\* ---- C15 (amended): Backspace in AwaitingQ1/AwaitingQ2 removes the last
\* buffer character if there is one and leaves the stage; when the buffer is
\* empty afterwards (also when it was empty before) the entry of the stage is
\* cleared, whatever it held, and the total is recomputed from the other
\* entry, which is unchanged.
C15_BackspaceClears ==
  [][(op' = "backspace" /\ focus # "comment" /\ quick_stage \in {1, 2})
     => /\ quick_stage' = quick_stage
        /\ quick_buffer' = IF quick_buffer = <<>> THEN <<>>
                           ELSE SubSeq(quick_buffer, 1, Len(quick_buffer) - 1)
        /\ (IF quick_stage = 1 THEN entry_q2' = entry_q2
                               ELSE entry_q1' = entry_q1)
        /\ quick_buffer' = <<>> =>
             /\ (IF quick_stage = 1 THEN entry_q1' ELSE entry_q2') = <<>>
             /\ var_total' =
                  OrZero(clamp_int(IF quick_stage = 1 THEN entry_q2
                                   ELSE entry_q1, 0, 50))]_vars

\* Backspace in AwaitingQ1 on the submission of student 1, whose record holds
\* q1 = 5 and q2 = 50: the q1 entry is empty and the total is 50
C15_Witness ==
  /\ op = "backspace"
  /\ focus = "other"
  /\ var_student_id = <<"1">>
  /\ df[1].q1_score = IntCell(5)
  /\ quick_stage = 1
  /\ quick_buffer = <<>>
  /\ entry_q1 = <<>>
  /\ entry_q2 = <<"5", "0">>
  /\ var_total = 50

\* ---- C16: Enter in ReadyToSave (focus outside the comment box) saves and
\* advances and always leaves AwaitingQ1 with an empty buffer: the save
\* succeeded and the cursor advanced, or it succeeded on the last submission
\* and the cursor stayed, or it was rejected and cursor, table and file
\* stayed.
C16_EnterInReadyToSave ==
  [][(op' = "enter" /\ focus # "comment" /\ quick_stage = 3)
     => /\ quick_stage' = 1
        /\ quick_buffer' = <<>>
        /\ \/ ret' = "ok" /\ idx < Len(pdf_paths) - 1 /\ idx' = idx + 1
           \/ ret' = "ok" /\ idx >= Len(pdf_paths) - 1 /\ idx' = idx
           \/ ret' = "rejected" /\ idx' = idx /\ df' = df /\ csv' = csv
        /\ ret' = "rejected" <=>
             (AbsentScore(entry_q1) /\ AbsentScore(entry_q2))]_vars

\* Enter in ReadyToSave was rejected: both entries hold "x", the machine is
\* back in AwaitingQ1
C16_Witness ==
  /\ op = "enter"
  /\ ret = "rejected"
  /\ quick_stage = 1
  /\ quick_buffer = <<>>
  /\ entry_q1 = <<"x">>
  /\ entry_q2 = <<"x">>
  /\ idx = 0
  /\ Len(pdf_paths) = 2

\* ---- C17: while the focus is on the comment box a digit, Backspace or
\* Enter keystroke changes neither stage, buffer, score entries, cursor,
\* table nor file, and triggers no save.
C17_CommentFocus ==
  [][(focus = "comment" /\ op' \in {"keypress", "backspace", "enter"})
     => /\ UNCHANGED <<quick_stage, quick_buffer, entry_q1, entry_q2, idx,
                       df, csv, var_total>>
        /\ ret' = "none"]_vars

\* Enter pressed in ReadyToSave with the focus on the comment box: nothing
\* was saved and the machine is still in ReadyToSave
C17_Witness ==
  /\ op = "enter"
  /\ focus = "comment"
  /\ quick_stage = 3
  /\ ret = "none"

\* two score cells hold the same number, or both hold none
SameScore(a, b) == CellValue(a) = CellValue(b)

\* two rows hold the same record
SameRecord(a, b) ==
  /\ a.class_time = b.class_time
  /\ a.name = b.name
  /\ a.student_id = b.student_id
  /\ SameScore(a.q1_score, b.q1_score)
  /\ SameScore(a.q2_score, b.q2_score)
  /\ a.total_score = b.total_score
  /\ a.comment = b.comment
  /\ a.file = b.file

\* ---- C11 (as stated): when the export fails, the table after export_excel
\* is the table before it.
C11_Original ==
  [][(op' = "export_excel" /\ export' = "failed") => df' = df]_vars

\* ---- C11 (amended): export_excel first saves the current record; when the
\* export then fails, the table is the one that save left: the table before
\* the action if the save was rejected, else that table with the current
\* record written over its row or appended and every other row in place.
\* A later export that succeeds writes every row of the table.
C11_FailedExportKeepsSave ==
  [][/\ (op' = "export_excel" /\ export' = "failed") =>
          /\ ret' = "rejected" => (df' = df /\ csv' = csv)
          /\ ret' = "ok" =>
               /\ Len(df') =
                    IF /\ CurRecord.student_id # <<>>
                       /\ \E i \in 1..Len(df) :
                            TextStr(df[i].student_id) = CurRecord.student_id
                    THEN Len(df) ELSE Len(df) + 1
               /\ csv' = to_csv(df')
               /\ \E k \in 1..Len(df') :
                    /\ SameRecord(df'[k], CurRecord)
                    /\ Len(df') > Len(df) => k = Len(df')
                    /\ \A i \in 1..Len(df) : i # k => df'[i] = df[i]
     /\ (/\ op = "export_excel" /\ export = "failed"
         /\ op' = "export_excel" /\ export' = "ok") =>
          \A i \in 1..Len(df') :
            \E k \in 1..Len(book') : \E j \in 1..Len(book'[k].rows) :
              book'[k].rows[j].rec = df'[i]]_vars

\* an export failed after its save had appended a second row
C11_Witness ==
  /\ op = "export_excel"
  /\ export = "failed"
  /\ ret = "ok"
  /\ Len(df) = 2
  /\ df[2].file = FileZ
  /\ csv = to_csv(df)

\* a student_id made of decimal digits only
ClaimNumeric(sid) == AllDecimal(sid)

\* the rows of every sheet of the workbook satisfy P(earlier, later)
SheetOrder(P(_, _)) ==
  \A k \in 1..Len(book) :
    \A i, j \in 1..Len(book[k].rows) :
      i < j => P(book[k].rows[i].rec.student_id,
                 book[k].rows[j].rec.student_id)

\* numeric ids before the others, and in ascending order of their value
NumericFirst(a, b) ==
  /\ ClaimNumeric(b) => ClaimNumeric(a)
  /\ (ClaimNumeric(a) /\ ClaimNumeric(b)) =>
       ~NumLess(DropZeros(b), DropZeros(a))

\* ---- C12 (as stated): in every exported sheet the rows with a purely
\* numeric student_id precede the rows with another student_id and are in
\* ascending order of the integer value of the id, whatever its magnitude.
C12_Original == SheetOrder(NumericFirst)

\* the id is no number of 10**18 or more
BelowSentinel(sid) == ClaimNumeric(sid) => NumLess(DropZeros(sid), Sentinel)

NumericFirstBelowSentinel(a, b) ==
  (BelowSentinel(a) /\ BelowSentinel(b)) => NumericFirst(a, b)

\* C12 for the numeric ids below 10**18 (holds)
C12_BelowSentinel == SheetOrder(NumericFirstBelowSentinel)

\* the score of the record is absent: the cell holds no number
AbsentCell(c) == CellValue(c) = None

\* ---- C20 (as stated): in the export the q1 cell carries the 'missing'
\* highlight exactly when q1_score is absent, and likewise the q2 cell; a
\* score that is present, 0 included, gets no missing highlight.
C20_Original ==
  \A k \in 1..Len(book) :
    \A i \in 1..Len(book[k].rows) :
      LET r == book[k].rows[i]
      IN  /\ r.q1_fill = "missing" <=> AbsentCell(r.rec.q1_score)
          /\ r.q2_fill = "missing" <=> AbsentCell(r.rec.q2_score)

\* C20 with the score 0 counted as absent (holds)
C20_ZeroCountsAsMissing ==
  \A k \in 1..Len(book) :
    \A i \in 1..Len(book[k].rows) :
      LET r == book[k].rows[i]
          Zero(c) == CellValue(c) = Some(0)
      IN  /\ r.q1_fill = "missing" <=>
               (r.rec.q1_score = EmptyCell \/ Zero(r.rec.q1_score))
          /\ r.q2_fill = "missing" <=>
               (r.rec.q2_score = EmptyCell \/ Zero(r.rec.q2_score))

\* the rows whose student_id text is sid
ClaimRows(table, sid) ==
  {i \in 1..Len(table) : TextStr(table[i].student_id) = sid}

\* the last row of the table holding sid
ClaimLast(table, sid) ==
  CHOOSE i \in ClaimRows(table, sid) : \A j \in ClaimRows(table, sid) : j <= i

\* ---- C18: a successful save whose non-empty student_id matches a row
\* overwrites in place: the row count is unchanged, the last matching row
\* holds the saved record in all eight fields, and every other row keeps
\* its contents and its position.
C18_OverwriteInPlace ==
  [][(/\ ret' = "ok"
      /\ Strip(var_student_id) # <<>>
      /\ ClaimRows(df, Strip(var_student_id)) # {})
     => LET k == ClaimLast(df, Strip(var_student_id))
        IN  /\ Len(df') = Len(df)
            /\ SameRecord(df'[k], CurRecord)
            /\ \A i \in 1..Len(df) : i # k => df'[i] = df[i]]_vars

\* student 1 saved with q1 = 5 and q2 = 9 over the second of two rows that
\* both hold the id 1, the first row still without a q2 score
C18_Witness ==
  /\ op = "save_current"
  /\ ret = "ok"
  /\ var_student_id = <<"1">>
  /\ Len(df) = 2
  /\ TextStr(df[1].student_id) = <<"1">>
  /\ TextStr(df[2].student_id) = <<"1">>
  /\ CellValue(df[1].q2_score) = None
  /\ CellValue(df[2].q1_score) = <<5>>
  /\ CellValue(df[2].q2_score) = <<9>>

\* the text a score field shows for a saved score: its decimal digits, or
\* nothing when the score is absent
ScoreText(c) == IF CellValue(c) = None THEN <<>> ELSE Str(CellValue(c)[1])

\* a step that loads a submission
LoadStep ==
  \/ op' = "next_pdf" /\ idx < Len(pdf_paths) - 1
  \/ op' = "prev_pdf" /\ idx > 0
  \/ op' = "save_and_next" /\ ret' = "ok" /\ idx < Len(pdf_paths) - 1
  \/ op' = "restart" /\ pdf_paths' # <<>>

\* the comment field shows the comment of the row
ShowsComment(row) ==
  text_comment = IF isnaText(row.comment) THEN <<>> ELSE row.comment

\* the four fields are empty, 0 and empty
ShowsBlank ==
  /\ entry_q1 = <<>>
  /\ entry_q2 = <<>>
  /\ var_total = 0
  /\ text_comment = <<>>

\* the four fields show the last row saved for the student_id on screen,
\* or are blank when there is none
ShowsSaved ==
  LET sid == Strip(var_student_id)
  IN  IF sid = <<>> \/ ClaimRows(df, sid) = {}
      THEN ShowsBlank
      ELSE LET row == df[ClaimLast(df, sid)]
           IN  /\ entry_q1 = ScoreText(row.q1_score)
               /\ entry_q2 = ScoreText(row.q2_score)
               /\ var_total = row.total_score
               /\ ShowsComment(row)

\* ---- C19 (as stated): after a submission is loaded, the q1 field, the q2
\* field, the total and the comment show exactly the values of the last row
\* saved for its student_id; they are empty, 0 and empty when the id is empty
\* or has no row.
C19_Original == [][LoadStep => ShowsSaved']_vars

\* the row's scores are stored as integers or as empty cells
PlainScores(row) ==
  /\ row.q1_score.t \in {"int", "str"}
  /\ row.q2_score.t \in {"int", "str"}

\* as ShowsSaved, the score fields being compared only when both scores of
\* the row are stored as integers or empty cells
ShowsSavedPlain ==
  LET sid == Strip(var_student_id)
  IN  IF sid = <<>> \/ ClaimRows(df, sid) = {}
      THEN ShowsBlank
      ELSE LET row == df[ClaimLast(df, sid)]
           IN  /\ var_total = row.total_score
               /\ ShowsComment(row)
               /\ PlainScores(row) =>
                     /\ entry_q1 = ScoreText(row.q1_score)
                     /\ entry_q2 = ScoreText(row.q2_score)

\* ---- C19 (where it holds): the fields show the saved values when both
\* scores of the row are stored as integers or empty cells; a score that
\* was written into a column read as floating point is shown with a
\* trailing ".0", which the next save does not read as a score.
C19_PlainScores == [][LoadStep => ShowsSavedPlain']_vars

\* ---- C24: save and next (the button, or Enter in ReadyToSave) moves the
\* cursor only from a submission to the next one, and only when the same
\* action wrote the record of the submission it leaves into the table and
\* the table into the file; a rejected save leaves the cursor in place.
C24_NoSkip ==
  [][op' \in {"save_and_next", "enter"} =>
       /\ idx' # idx =>
             /\ idx' = idx + 1
             /\ ret' = "ok"
             /\ \E k \in 1..Len(df') : SameRecord(df'[k], CurRecord)
             /\ csv' = to_csv(df')
       /\ ret' = "rejected" => (idx' = idx /\ df' = df /\ csv' = csv)]_vars

\* Enter in ReadyToSave has saved the first submission and moved to the
\* second one
C24_Witness ==
  /\ op = "enter"
  /\ ret = "ok"
  /\ idx = 1
  /\ \E k \in 1..Len(df) : df[k].file = pdf_paths[1]
  /\ csv = to_csv(df)

\* ---- C25: Enter saves only in ReadyToSave; ReadyToSave is entered only
\* by Enter in AwaitingQ2 and AwaitingQ2 only by Enter in AwaitingQ1, so
\* that two Enter commits lie between a reset and a save by Enter; a digit
\* key or Backspace in ReadyToSave changes neither the stage, nor the
\* buffer, nor the score fields.
C25_EnterSequence ==
  [][/\ (op' = "enter" /\ ret' # "none") => quick_stage = 3
     /\ (quick_stage' = 3 /\ quick_stage # 3)
          => (op' = "enter" /\ quick_stage = 2)
     /\ (quick_stage' = 2 /\ quick_stage # 2)
          => (op' = "enter" /\ quick_stage = 1)
     /\ (op' \in {"keypress", "backspace"} /\ quick_stage = 3)
          => UNCHANGED <<quick_stage, quick_buffer, entry_q1, entry_q2>>]_vars

\* Backspace pressed in ReadyToSave, both scores committed, the focus
\* outside the comment box
C25_Witness ==
  /\ op = "backspace"
  /\ quick_stage = 3
  /\ focus = "other"
  /\ entry_q1 # <<>>
  /\ entry_q2 # <<>>

\* a text field of a record is empty: the empty text, blanks only, or the
\* NaN that a blank cell of the file is read as
ClaimEmpty(c) == isnaText(c) \/ Strip(c) = <<>>

\* the rows of all sheets of the workbook, sheet after sheet
RECURSIVE BookRows(_)
BookRows(b) ==
  IF b = <<>> THEN <<>> ELSE Head(b).rows \o BookRows(Tail(b))

\* ---- C21 (as stated): in the exported workbook every row whose name or
\* student_id is empty carries the alert highlight on all its cells, the q1
\* and q2 cells included.
C21_Original ==
  \A i \in 1..Len(BookRows(book)) :
    LET r == BookRows(book)[i]
    IN  (ClaimEmpty(r.rec.name) \/ ClaimEmpty(r.rec.student_id))
          => (r.alert /\ r.q1_fill = "alert" /\ r.q2_fill = "alert")

\* ---- C21 (where it holds): a row whose name or student_id was saved as
\* the empty text in this run carries the alert highlight on its cells
\* other than q1 and q2, and on the q1 or q2 cell unless that cell has the
\* missing highlight.
C21_AlertOnEmptyText ==
  \A i \in 1..Len(BookRows(book)) :
    LET r == BookRows(book)[i]
    IN  (Strip(r.rec.name) = <<>> \/ Strip(r.rec.student_id) = <<>>)
          => /\ r.alert
             /\ r.q1_fill \in {"alert", "missing"}
             /\ r.q2_fill \in {"alert", "missing"}
             /\ r.q1_fill = "missing" <=> IsMissing(r.rec.q1_score)
             /\ r.q2_fill = "missing" <=> IsMissing(r.rec.q2_score)

\* how often the record rec occurs in a sequence of records
Count(seq, rec) == Cardinality({j \in 1..Len(seq) : seq[j] = rec})

\* how often the record rec occurs in the sheets of the workbook
CountInBook(b, rec) ==
  Cardinality({j \in 1..Len(BookRows(b)) : BookRows(b)[j].rec = rec})

\* the section of a row: its class_time, or the ungrouped label when the
\* class_time is empty
Section(rec) ==
  IF ClaimEmpty(rec.class_time) THEN Ungrouped ELSE rec.class_time

\* ---- C22 (as stated): the exported workbook partitions the table: every
\* row of the table is in exactly one sheet, the rows of one sheet are of
\* one section and those of two sheets of two sections, and the rows
\* without class_time are in the sheet named by the ungrouped label.
C22_Original ==
  export = "ok" =>
    /\ \A i \in 1..Len(df) : CountInBook(book, df[i]) = Count(df, df[i])
    /\ \A s, t \in 1..Len(book) :
         \A i \in 1..Len(book[s].rows), j \in 1..Len(book[t].rows) :
           (s = t) <=> (Section(book[s].rows[i].rec)
                          = Section(book[t].rows[j].rec))
    /\ \A s \in 1..Len(book) : \A i \in 1..Len(book[s].rows) :
         ClaimEmpty(book[s].rows[i].rec.class_time)
           => book[s].title = Ungrouped

\* the first n characters of a text
Prefix(t, n) == IF Len(t) > n THEN SubSeq(t, 1, n) ELSE t

\* the n-th candidate for the name of the sheet of a label: the label cut
\* to the limit, then that name with the suffix _n, cut so that name and
\* suffix fit in the limit
Candidate(label, n) ==
  IF n = 0 THEN Prefix(label, SheetNameLimit)
  ELSE LET suffix == <<"_">> \o Str(n)
       IN  Prefix(Prefix(label, SheetNameLimit),
                  SheetNameLimit - Len(suffix)) \o suffix

====
